---- MODULE Spec2Model ----
(***************************************************************************)
(* Model of usr/local/lib/builder/Builder.py: the Builder job that selects *)
(* packages of a source root, bumps their version, stages and packages     *)
(* them and refreshes the APT repository index.                            *)
(*                                                                         *)
(* Names are sequences of one-character strings, so that sorting and the   *)
(* '.deb$' rewrite of the build loop are computed on the characters.       *)
(***************************************************************************)
EXTENDS Naturals, Sequences, FiniteSets, TLC

\* ------------------------------------------------------------------ bounds

\* Number of invocations of doRunSteps in one behaviour.
MaxRuns == 2

\* ------------------------------------------------------------------ names

A == <<"a">>
ADeb == <<"a", ".", "d", "e", "b">>
B == <<"b">>
\* The names an entry of the source root, or the --package argument, can have.
Names == {A, ADeb, B}
\* argparse default of --package (None, falsy like the empty string).
NoPackage == <<>>

\* Code point of a character, as Python's string comparison uses it.
Ord(c) ==
    CASE c = "." -> 46
      [] c = "a" -> 97
      [] c = "b" -> 98
      [] c = "d" -> 100
      [] c = "e" -> 101

\* s < t for Python strings.
StrLess(s, t) ==
    \E k \in 1..(Len(s) + 1) :
        /\ \A i \in 1..(k - 1) : i <= Len(t) /\ s[i] = t[i]
        /\ \/ k = Len(s) + 1 /\ Len(t) >= k
           \/ k <= Len(s) /\ k <= Len(t) /\ Ord(s[k]) < Ord(t[k])

\* list.sort() of a listing without repeated names.
Sorted(S) ==
    CHOOSE q \in [1..Cardinality(S) -> S] :
        \A i, j \in 1..Cardinality(S) : i < j => StrLess(q[i], q[j])

\* re.sub('.deb$', '', package): any character followed by a final "deb" goes.
StripDeb(package) ==
    IF Len(package) >= 4
       /\ SubSeq(package, Len(package) - 2, Len(package)) = <<"d", "e", "b">>
    THEN SubSeq(package, 1, Len(package) - 4)
    ELSE package

\* ------------------------------------------------------------ control file

\* A line of a control file: a field and the dotted number after it
\* (<<>> when the field holds no number).
PackageLine == [tag |-> "Package", ver |-> <<>>]
VersionLine(v) == [tag |-> "Version", ver |-> v]

\* The text 'Version: ' followed by a digit occurs in the line.
HasVersionText(line) ==
    line.tag \in {"Version", "Standards-Version"} /\ Len(line.ver) >= 1

\* '(Version: )([\d\.]+\.)(\d+)' matches in the line: two numbers at least.
LineMatches(line) ==
    line.tag \in {"Version", "Standards-Version"} /\ Len(line.ver) >= 2

\* re.search: the leftmost match, 0 when there is none (None).
SearchVersion(lines) ==
    IF \E i \in 1..Len(lines) : LineMatches(lines[i])
    THEN CHOOSE i \in 1..Len(lines) :
            LineMatches(lines[i]) /\ \A j \in 1..(i - 1) : ~LineMatches(lines[j])
    ELSE 0

\* group(2) + str(int(group(3)) + 1)
NextVersion(v) == SubSeq(v, 1, Len(v) - 1) \o <<v[Len(v)] + 1>>

\* re.sub('Version: [\d\.]+', nextVersionText, content): every occurrence.
SubVersion(lines, next) ==
    [i \in 1..Len(lines) |->
        IF HasVersionText(lines[i]) THEN [lines[i] EXCEPT !.ver = next]
        ELSE lines[i]]

NoControl == [exists |-> FALSE, lines |-> <<>>]
GoodControl == [exists |-> TRUE, lines |-> <<PackageLine, VersionLine(<<1, 2, 9>>)>>]
BadControl == [exists |-> TRUE, lines |-> <<PackageLine>>]

\* A second field whose text holds 'Version: ' and a number.
StandardsLine(v) == [tag |-> "Standards-Version", ver |-> v]
\* Control files with such a field after and before the Version field, and
\* one whose version is a single number.
AfterControl ==
    [exists |-> TRUE,
     lines |-> <<PackageLine, VersionLine(<<1, 2, 9>>), StandardsLine(<<3, 9, 2>>)>>]
BeforeControl ==
    [exists |-> TRUE,
     lines |-> <<PackageLine, StandardsLine(<<3, 9, 2>>), VersionLine(<<1, 2, 9>>)>>]
ShortControl == [exists |-> TRUE, lines |-> <<PackageLine, VersionLine(<<5>>)>>]

\* --------------------------------------------------------------- variables

VARIABLES
    arguments,    \* self.arguments: [all, package]
    packageList,  \* Builder.packageList, a class attribute
    src,          \* the entries of config['codeSourceDir'], by name
    debs,         \* the .deb files of config['debsDir'], by package name
    workingDir,   \* config['debsDir']/.workingDir
    index,        \* config['debsDir']/Packages and Packages.gz
    pc,           \* position of the run
    idx,          \* position of the loop of buildPackages in packageList
    cur,          \* the package buildPackage was called with
    result,       \* how the per-package builds of the run ended, in order
    events,       \* the calls the run has made to the system, in order
    base,         \* length of packageList when the run started
    clock,        \* the newest modification time handed out
    runs          \* invocations of doRunSteps so far

vars == <<arguments, packageList, src, debs, workingDir, index, pc, idx, cur,
          result, events, base, clock, runs>>

fsvars == <<src, debs, workingDir, index>>

\* ------------------------------------------------------------- file system

\* The entries `find` walks under the source directory of a package: the
\* directory itself and, in a checkout, the VCS directory (type d), the
\* control file when there is one, the payload and a compiled file (type f).
Tree(package) ==
    IF src[package].kind # "dir" THEN {}
    ELSE {[base |-> ".", type |-> "d", mtime |-> src[package].dirm],
          [base |-> "data", type |-> "f", mtime |-> src[package].datam],
          [base |-> "m.pyc", type |-> "f", mtime |-> 1]}
         \cup (IF src[package].vcs
               THEN {[base |-> ".git", type |-> "d", mtime |-> src[package].dirm]}
               ELSE {})
         \cup (IF src[package].ctl.exists
               THEN {[base |-> "DEBIAN/control", type |-> "f",
                      mtime |-> src[package].ctlm]}
               ELSE {})

\* exists(getControlFilePath(package))
ControlExists(package) == src[package].kind = "dir" /\ src[package].ctl.exists

\* isdir(codeSourceDir + '/' + package)
IsDir(package) == src[package].kind = "dir"

\* listdir(config['codeSourceDir'])
ListDir == {n \in Names : src[n].kind # "none"}

\* The query without -type f: directories count too.
FindNewerEntries(package) ==
    {e \in Tree(package) : e.mtime > debs[package].mtime}

\* find packageDir -type f -newer debFile: the paths printed.
FindNewerFiles(package) ==
    {e \in Tree(package) : e.type = "f" /\ e.mtime > debs[package].mtime}

\* needToRebuildPackage(package)
NeedToRebuildPackage(package) ==
    IF ~debs[package].exists THEN TRUE
    ELSE FindNewerFiles(package) # {}

\* The list addAllPackagesToList(force) appends, in order.
AddAllPackagesToList(force) ==
    SelectSeq(Sorted(ListDir),
              LAMBDA package :
                  /\ force \/ NeedToRebuildPackage(package)
                  /\ IsDir(package) /\ ControlExists(package))

\* The calls of needToRebuildPackage that addAllPackagesToList(force) makes:
\* none when force is set (the 'or' short-circuits).
StaleQueries(force) ==
    IF force THEN <<>>
    ELSE [i \in 1..Cardinality(ListDir) |->
             [op |-> "stale", pkg |-> Sorted(ListDir)[i], ok |-> TRUE, at |-> 0]]

\* What rsync -a copies from the source directory of a package. The payload
\* of a package lives at a path of its own; the other paths are the same in
\* every package.
SourceFiles(package) ==
    {[base |-> e.base, of |-> package,
      lines |-> IF e.base = "DEBIAN/control" THEN src[package].ctl.lines ELSE <<>>]
        : e \in Tree(package)}

\* Two staged files are at the same path of the working directory.
SamePath(f, g) == f.base = g.base /\ (f.base = "data" => f.of = g.of)

\* rsync -a source/ workingDir/ (no --delete): what was there stays unless
\* a copied file takes its path.
Rsync(old, package) ==
    {f \in old : \A g \in SourceFiles(package) : ~SamePath(f, g)}
        \cup SourceFiles(package)

\* Builder.packageFilesToRemoveBeforeBuilding
packageFilesToRemoveBeforeBuilding ==
    <<".svn", ".cache", ".project", ".pydevproject", "*.pyc", ".DEBUG", ".git",
      "README.md">>

\* find -name: the pattern matches the name of the entry.
NameMatches(pattern, name) ==
    \/ pattern = name
    \/ pattern = "*.pyc" /\ name \in {"m.pyc"}

\* The staged path is a directory.
IsStagedDir(f) == f.base \in {".", ".git"}

\* One find workingDir -ignore_readdir_race -name pattern -exec rm -rf {} ;
\* The entries that match are removed. find has no -prune and no -depth: it
\* goes on to descend into a directory it has just removed, reports that the
\* directory is gone and exits 1.
Find(files, pattern) ==
    LET found == {f \in files : NameMatches(pattern, f.base)}
    IN  [files |-> files \ found, ok |-> \A f \in found : ~IsStagedDir(f)]

\* The loop of createWorkingDir from its i-th name on, with the command for
\* the k-th name failing before it has removed anything (k = 0: none does):
\* the files left and whether the loop ran to its end. A command that fails
\* raises, and the names after it are not searched.
RECURSIVE FindLoop(_, _, _)
FindLoop(files, i, k) ==
    IF i > Len(packageFilesToRemoveBeforeBuilding) THEN [files |-> files, ok |-> TRUE]
    ELSE IF i = k THEN [files |-> files, ok |-> FALSE]
    ELSE LET r == Find(files, packageFilesToRemoveBeforeBuilding[i])
         IN  IF r.ok THEN FindLoop(r.files, i + 1, k) ELSE r

\* What the find ... -exec rm -rf loop of createWorkingDir leaves of a tree.
Sanitize(files) == FindLoop(files, 1, 0).files

\* dpkg-scanpackages ./ /dev/null: the packages that have a .deb file.
ScanPackages == {n \in Names : debs[n].exists}

NoDeb == [exists |-> FALSE, mtime |-> 0, files |-> {}]
NoIndex == [exists |-> FALSE, pkgs |-> {}]
NoWorkingDir == [exists |-> FALSE, files |-> {}]

\* The modification time a file the run writes now gets: later than that of
\* every file there is. (The number of writes of a run is bounded by the
\* length of its list, so the clock needs no bound of its own.)
WriteTimes == {clock + 1}

\* ---------------------------------------------------------------- initial

NoEntry ==
    [kind |-> "none", ctl |-> NoControl, ctlm |-> 0, datam |-> 0, dirm |-> 0,
     vcs |-> FALSE]
FileEntry ==
    [kind |-> "file", ctl |-> NoControl, ctlm |-> 0, datam |-> 0, dirm |-> 0,
     vcs |-> FALSE]
DirEntry(c, d) ==
    [kind |-> "dir", ctl |-> c, ctlm |-> 1, datam |-> d, dirm |-> 2, vcs |-> FALSE]
\* A package directory that is a checkout: it holds a .git directory.
VcsEntry(c, d) == [DirEntry(c, d) EXCEPT !.vcs = TRUE]
OldDeb(t) == [exists |-> TRUE, mtime |-> t, files |-> {}]

\* A source entry with the .deb file of its name: no entry, a plain file, a
\* directory without control file, with a control file without version, and
\* a package never built, built at the time of its newest file, built before
\* its newest file and built after it, and a checkout never built.
Fixtures ==
    {<<NoEntry, NoDeb>>, <<FileEntry, NoDeb>>, <<VcsEntry(GoodControl, 1), NoDeb>>,
     <<DirEntry(NoControl, 1), NoDeb>>, <<DirEntry(BadControl, 1), NoDeb>>,
     <<DirEntry(GoodControl, 1), NoDeb>>, <<DirEntry(GoodControl, 1), OldDeb(1)>>,
     <<DirEntry(GoodControl, 2), OldDeb(1)>>, <<DirEntry(GoodControl, 1), OldDeb(2)>>}

\* The entry named b: the fixtures that differ in what a run does with it.
FixturesB ==
    {<<NoEntry, NoDeb>>, <<DirEntry(BadControl, 1), NoDeb>>,
     <<DirEntry(GoodControl, 1), NoDeb>>, <<DirEntry(GoodControl, 1), OldDeb(1)>>,
     <<DirEntry(GoodControl, 2), OldDeb(1)>>}

\* The entry named a.deb is absent or a package never built as a.deb.deb.
DebFixtures == {<<NoEntry, NoDeb>>, <<DirEntry(GoodControl, 1), NoDeb>>}

\* The command lines: a package can be named, and --all can be given, also
\* together with a package.
Arguments ==
    {r \in [all : BOOLEAN, package : Names \cup {NoPackage}] :
        r.all => r.package \in {NoPackage, B}}

Init ==
    /\ arguments \in Arguments
    /\ packageList = <<>>
    /\ \E fa \in Fixtures, fd \in DebFixtures, fb \in FixturesB :
          /\ src = (A :> fa[1]) @@ (ADeb :> fd[1]) @@ (B :> fb[1])
          /\ debs = (A :> fa[2]) @@ (ADeb :> fd[2]) @@ (B :> fb[2])
    /\ workingDir = NoWorkingDir
    /\ index = [plain |-> NoIndex, gz |-> NoIndex]
    /\ pc = "start"
    /\ idx = 1
    /\ cur = NoPackage
    /\ result = <<>>
    /\ events = <<>>
    /\ base = 0
    /\ clock = 2
    /\ runs = 1

\* The control files a package can come with.
ControlFiles ==
    {NoControl, BadControl, ShortControl, GoodControl, AfterControl, BeforeControl}

\* The runs on a source root whose package a comes with any of the control
\* files, built before or not, beside a package b never built or no b.
InitControl ==
    /\ arguments \in Arguments
    /\ packageList = <<>>
    /\ \E c \in ControlFiles, d \in {NoDeb, OldDeb(2)},
          fb \in {<<NoEntry, NoDeb>>, <<DirEntry(GoodControl, 1), NoDeb>>} :
          /\ src = (A :> DirEntry(c, 1)) @@ (ADeb :> NoEntry) @@ (B :> fb[1])
          /\ debs = (A :> d) @@ (ADeb :> NoDeb) @@ (B :> fb[2])
    /\ workingDir = NoWorkingDir
    /\ index = [plain |-> NoIndex, gz |-> NoIndex]
    /\ pc = "start"
    /\ idx = 1
    /\ cur = NoPackage
    /\ result = <<>>
    /\ events = <<>>
    /\ base = 0
    /\ clock = 2
    /\ runs = 1

\* ------------------------------------------------------------- exceptions

\* class PackageProblemOkToContinue(Exception)
PackageProblemOkToContinue == "PackageProblemOkToContinue"
\* What re.search(...).group raises when the search returned None.
AttributeError == "AttributeError"
\* What self.system.runCommand raises when the command fails.
CommandFailed == "CommandFailed"

\* A call of the run to the system: the operation, the package it is for,
\* whether it succeeded, and the position in packageList of the element being
\* built (0 outside the loop of buildPackages).
Event(op, package, ok, at) == [op |-> op, pkg |-> package, ok |-> ok, at |-> at]

\* No except clause, and a bare one.
CatchesNothing(exc) == FALSE
CatchesEverything(exc) == TRUE

\* The except clause of buildPackage: the exceptions it catches.
BuildPackageCatches(exc) == exc = PackageProblemOkToContinue

\* An exception raised inside buildPackage: caught, the package is skipped
\* and the loop of buildPackages goes on; not caught, it leaves doRunSteps.
Raise(exc) ==
    IF BuildPackageCatches(exc)
    THEN /\ pc' = "loop"
         /\ idx' = idx + 1
         /\ result' = Append(result, "Skipped")
    ELSE /\ pc' = "aborted"
         /\ UNCHANGED <<idx, result>>

\* ----------------------------------------------------------------- actions

\* The selection with the package flag tested before the all flag.
DoRunSteps_PackageFirst ==
    /\ pc = "start"
    /\ IF arguments.package # NoPackage
       THEN /\ packageList' = Append(packageList, arguments.package)
            /\ UNCHANGED events
       ELSE IF arguments.all
       THEN /\ packageList' = packageList \o AddAllPackagesToList(TRUE)
            /\ events' = events \o StaleQueries(TRUE)
       ELSE /\ packageList' = packageList \o AddAllPackagesToList(FALSE)
            /\ events' = events \o StaleQueries(FALSE)
    /\ pc' = "loop"
    /\ idx' = 1
    /\ UNCHANGED <<arguments, fsvars, cur, result, base, clock, runs>>

\* doRunSteps, lines 34-40: the selection of the run.
DoRunSteps ==
    /\ pc = "start"
    /\ IF arguments.all
       THEN /\ packageList' = packageList \o AddAllPackagesToList(TRUE)
            /\ events' = events \o StaleQueries(TRUE)
       ELSE IF arguments.package # NoPackage
       THEN /\ packageList' = Append(packageList, arguments.package)
            /\ UNCHANGED events
       ELSE /\ packageList' = packageList \o AddAllPackagesToList(FALSE)
            /\ events' = events \o StaleQueries(FALSE)
    /\ pc' = "loop"
    /\ idx' = 1
    /\ UNCHANGED <<arguments, fsvars, cur, result, base, clock, runs>>

\* The loop leaving for the refresh after its first element.
BuildPackages_RefreshEarly ==
    /\ pc = "loop"
    /\ IF idx <= Len(packageList) /\ idx = 1
       THEN /\ cur' = StripDeb(packageList[idx])
            /\ pc' = "version"
       ELSE /\ pc' = "refresh"
            /\ UNCHANGED cur
    /\ UNCHANGED <<arguments, packageList, fsvars, idx, result, events, base,
                   clock, runs>>

\* buildPackages: the next element of packageList, rewritten, goes to
\* buildPackage; after the last one doRunSteps calls refreshAptRepository.
BuildPackages ==
    /\ pc = "loop"
    /\ IF idx <= Len(packageList)
       THEN /\ cur' = StripDeb(packageList[idx])
            /\ pc' = "version"
       ELSE /\ pc' = "refresh"
            /\ UNCHANGED cur
    /\ UNCHANGED <<arguments, packageList, fsvars, idx, result, events, base,
                   clock, runs>>

\* The version step writing the control file back when it found no version.
IncrementPackageVersion_WriteBack ==
    /\ pc = "version"
    /\ IF ~ControlExists(cur)
       THEN /\ Raise(PackageProblemOkToContinue)
            /\ events' = Append(events, Event("nocontrol", cur, FALSE, idx))
            /\ UNCHANGED <<src, clock>>
       ELSE IF SearchVersion(src[cur].ctl.lines) = 0
       THEN /\ Raise(AttributeError)
            /\ events' = Append(events, Event("noversion", cur, FALSE, idx))
            /\ src' = [src EXCEPT ![cur].ctlm = clock]
            /\ UNCHANGED clock
       ELSE LET lines == src[cur].ctl.lines
                match == lines[SearchVersion(lines)]
            IN  /\ \E t \in WriteTimes :
                      /\ src' = [src EXCEPT
                                   ![cur].ctl.lines =
                                       SubVersion(lines, NextVersion(match.ver)),
                                   ![cur].ctlm = t]
                      /\ clock' = t
                /\ events' = Append(events, Event("bump", cur, TRUE, idx))
                /\ pc' = "rsync"
                /\ UNCHANGED <<idx, result>>
    /\ UNCHANGED <<arguments, packageList, debs, workingDir, index, cur, base, runs>>

\* The version step going on without writing the control file.
IncrementPackageVersion_NoWrite ==
    /\ pc = "version"
    /\ IF ~ControlExists(cur)
       THEN /\ Raise(PackageProblemOkToContinue)
            /\ events' = Append(events, Event("nocontrol", cur, FALSE, idx))
            /\ UNCHANGED <<src, clock>>
       ELSE IF SearchVersion(src[cur].ctl.lines) = 0
       THEN /\ Raise(AttributeError)
            /\ events' = Append(events, Event("noversion", cur, FALSE, idx))
            /\ UNCHANGED <<src, clock>>
       ELSE LET lines == src[cur].ctl.lines
                match == lines[SearchVersion(lines)]
            IN  /\ match.ver # <<>>
                /\ UNCHANGED src
                /\ events' = Append(events, Event("bump", cur, TRUE, idx))
                /\ pc' = "rsync"
                /\ UNCHANGED <<idx, result, clock>>
    /\ UNCHANGED <<arguments, packageList, debs, workingDir, index, cur, base, runs>>

\* incrementPackageVersion(package)
IncrementPackageVersion ==
    /\ pc = "version"
    /\ IF ~ControlExists(cur)
       THEN /\ Raise(PackageProblemOkToContinue)
            /\ events' = Append(events, Event("nocontrol", cur, FALSE, idx))
            /\ UNCHANGED <<src, clock>>
       ELSE IF SearchVersion(src[cur].ctl.lines) = 0
       THEN /\ Raise(AttributeError)
            /\ events' = Append(events, Event("noversion", cur, FALSE, idx))
            /\ UNCHANGED <<src, clock>>
       ELSE LET lines == src[cur].ctl.lines
                match == lines[SearchVersion(lines)]
            IN  /\ \E t \in WriteTimes :
                      /\ src' = [src EXCEPT
                                   ![cur].ctl.lines =
                                       SubVersion(lines, NextVersion(match.ver)),
                                   ![cur].ctlm = t]
                      /\ clock' = t
                /\ events' = Append(events, Event("bump", cur, TRUE, idx))
                /\ pc' = "rsync"
                /\ UNCHANGED <<idx, result>>
    /\ UNCHANGED <<arguments, packageList, debs, workingDir, index, cur, base, runs>>

\* createWorkingDir, lines 119-121: rsync -a of the source into the working dir.
CreateWorkingDir ==
    /\ pc = "rsync"
    /\ \E ok \in BOOLEAN :
          /\ events' = Append(events, Event("rsync", cur, ok, idx))
          /\ IF ok
             THEN /\ workingDir' = [exists |-> TRUE,
                                    files |-> Rsync(workingDir.files, cur)]
                  /\ pc' = "sanitize"
                  /\ UNCHANGED <<idx, result>>
             ELSE /\ Raise(CommandFailed)
                  /\ UNCHANGED workingDir
    /\ UNCHANGED <<arguments, packageList, src, debs, index, cur, base, clock, runs>>

\* createWorkingDir, lines 122-124: one find command per excluded name, in
\* the order of the list, until one fails: of its own (k) or on a directory
\* it removed.
RemovePackageFiles ==
    /\ pc = "sanitize"
    /\ \E k \in 0..Len(packageFilesToRemoveBeforeBuilding) :
          LET r == FindLoop(workingDir.files, 1, k)
          IN  /\ events' = Append(events, Event("sanitize", cur, r.ok, idx))
              /\ workingDir' = [workingDir EXCEPT !.files = r.files]
              /\ IF r.ok
                 THEN /\ pc' = "rmdeb"
                      /\ UNCHANGED <<idx, result>>
                 ELSE Raise(CommandFailed)
    /\ UNCHANGED <<arguments, packageList, src, debs, index, cur, base, clock, runs>>

\* The rm -f that leaves the .deb file in place.
RemoveDebFile_Keep ==
    /\ pc = "rmdeb"
    /\ \E ok \in BOOLEAN :
          /\ events' = Append(events, Event("rmdeb", cur, ok, idx))
          /\ IF ok
             THEN /\ pc' = "dpkg"
                  /\ UNCHANGED <<idx, result>>
             ELSE Raise(CommandFailed)
    /\ UNCHANGED <<arguments, packageList, src, debs, workingDir, index, cur, base,
                   clock, runs>>

\* buildDebFile, lines 134-136: rm -f of the .deb file of the package.
RemoveDebFile ==
    /\ pc = "rmdeb"
    /\ \E ok \in BOOLEAN :
          /\ events' = Append(events, Event("rmdeb", cur, ok, idx))
          /\ IF ok
             THEN /\ debs' = [debs EXCEPT ![cur] = NoDeb]
                  /\ pc' = "dpkg"
                  /\ UNCHANGED <<idx, result>>
             ELSE /\ Raise(CommandFailed)
                  /\ UNCHANGED debs
    /\ UNCHANGED <<arguments, packageList, src, workingDir, index, cur, base, clock, runs>>

\* buildDebFile, lines 137-138: dpkg-deb --build of the working dir.
BuildDebFile ==
    /\ pc = "dpkg"
    /\ \E ok \in BOOLEAN :
          /\ events' = Append(events, Event("dpkg", cur, ok, idx))
          /\ IF ok
             THEN /\ \E t \in WriteTimes :
                        /\ debs' = [debs EXCEPT ![cur] =
                                      [exists |-> TRUE, mtime |-> t,
                                       files |-> workingDir.files]]
                        /\ clock' = t
                  /\ pc' = "rmwork"
                  /\ UNCHANGED <<idx, result>>
             ELSE /\ Raise(CommandFailed)
                  /\ UNCHANGED <<debs, clock>>
    /\ UNCHANGED <<arguments, packageList, src, workingDir, index, cur, base, runs>>

\* The cleanup that leaves the working directory in place.
RemoveWorkingDir_Keep ==
    /\ pc = "rmwork"
    /\ events' = Append(events, Event("rmwork", cur, TRUE, idx))
    /\ pc' = "loop"
    /\ idx' = idx + 1
    /\ result' = Append(result, "Built")
    /\ UNCHANGED <<arguments, packageList, src, debs, workingDir, index, cur, base,
                   clock, runs>>

\* removeWorkingDir, and the return of buildPackage to the loop.
RemoveWorkingDir ==
    /\ pc = "rmwork"
    /\ \E ok \in BOOLEAN :
          /\ events' = Append(events, Event("rmwork", cur, ok, idx))
          /\ IF ok
             THEN /\ workingDir' = NoWorkingDir
                  /\ pc' = "loop"
                  /\ idx' = idx + 1
                  /\ result' = Append(result, "Built")
             ELSE /\ Raise(CommandFailed)
                  /\ UNCHANGED workingDir
    /\ UNCHANGED <<arguments, packageList, src, debs, index, cur, base, clock, runs>>

\* refreshAptRepository, lines 150-158: dpkg-scanpackages and the write of
\* the Packages file, unless packageList is empty.
RefreshAptRepository ==
    /\ pc = "refresh"
    /\ IF Len(packageList) = 0
       THEN /\ pc' = "done"
            /\ UNCHANGED <<index, events>>
       ELSE \E ok \in BOOLEAN :
              IF ok
              THEN /\ index' = [index EXCEPT
                                  !.plain = [exists |-> TRUE, pkgs |-> ScanPackages]]
                   /\ events' = events \o <<Event("scan", NoPackage, TRUE, 0),
                                            Event("write", NoPackage, TRUE, 0)>>
                   /\ pc' = "gzip"
              ELSE /\ events' = Append(events, Event("scan", NoPackage, FALSE, 0))
                   /\ pc' = "aborted"
                   /\ UNCHANGED index
    /\ UNCHANGED <<arguments, packageList, src, debs, workingDir, idx, cur,
                   result, base, clock, runs>>

\* refreshAptRepository, lines 159-160: gzip --best --force of the Packages
\* file, which replaces it by Packages.gz.
GzipPackages ==
    /\ pc = "gzip"
    /\ \E ok \in BOOLEAN :
          /\ events' = Append(events, Event("gzip", NoPackage, ok, 0))
          /\ IF ok
             THEN /\ index' = [plain |-> NoIndex, gz |-> index.plain]
                  /\ pc' = "done"
             ELSE /\ pc' = "aborted"
                  /\ UNCHANGED index
    /\ UNCHANGED <<arguments, packageList, src, debs, workingDir, idx, cur,
                   result, base, clock, runs>>

\* doRunSteps is invoked again: by a new process, where the class attribute
\* packageList is empty again, or by the same process (after a run that
\* returned, or one whose exception the caller caught), where it still holds
\* what the earlier runs appended.
NewRun ==
    /\ pc \in {"done", "aborted"}
    /\ runs < MaxRuns
    /\ arguments' \in Arguments
    /\ \E fresh \in BOOLEAN :
          /\ packageList' = IF fresh THEN <<>> ELSE packageList
    /\ base' = Len(packageList')
    /\ pc' = "start"
    /\ idx' = 1
    /\ cur' = NoPackage
    /\ result' = <<>>
    /\ events' = <<>>
    /\ runs' = runs + 1
    /\ UNCHANGED <<fsvars, clock>>

Next ==
    \/ DoRunSteps
    \/ BuildPackages
    \/ IncrementPackageVersion
    \/ CreateWorkingDir
    \/ RemovePackageFiles
    \/ RemoveDebFile
    \/ BuildDebFile
    \/ RemoveWorkingDir
    \/ RefreshAptRepository
    \/ GzipPackages
    \/ NewRun

Spec == Init /\ [][Next]_vars

\* The same runs, on the source roots of InitControl.
SpecControl == InitControl /\ [][Next]_vars

\* ------------------------------------------------------------------ claims

Range(q) == {q[i] : i \in DOMAIN q}

\* The run is the first of its process: packageList was empty when it began.
FreshProcess == base = 0
\* The selection modes of doRunSteps.
ExplicitMode == ~arguments.all /\ arguments.package # NoPackage
DefaultMode == ~arguments.all /\ arguments.package = NoPackage

\* The events that open a per-package build: what incrementPackageVersion,
\* the first call of buildPackage, did.
BuildStarts == {i \in DOMAIN events : events[i].op \in {"nocontrol", "noversion", "bump"}}
\* The events of the index refresh that write a file: the Packages file and
\* its compressed form.
RefreshEvents == {i \in DOMAIN events : events[i].op \in {"write", "gzip"}}
\* The per-package builds of the run that ended Built.
BuiltSome == \E k \in DOMAIN result : result[k] = "Built"

\* C1: the index refresh is invoked iff the run built at least one package:
\* a run that built none (also when every selected package ended Skipped)
\* writes neither the index file nor its compressed form, and a run that
\* returned after building one has written the index.
C1_RefreshIffBuilt ==
    /\ RefreshEvents # {} => BuiltSome
    /\ (pc = "done" /\ BuiltSome) => \E i \in RefreshEvents : events[i].op = "write"

\* C2: a control file that exists but has no line matching the version
\* pattern makes its package end Skipped, and the run goes on with the loop.
C2_MalformedVersionSkips ==
    \A i \in DOMAIN events :
        events[i].op = "noversion" =>
            /\ pc # "aborted"
            /\ Len(result) >= events[i].at
            /\ result[events[i].at] = "Skipped"

\* C3: when the per-package build that created the staging directory ends, by
\* success or by failure of the sanitizing step or of the packaging tool, the
\* staging directory does not exist.
C3_StagingRemovedOnExit ==
    events # <<>> =>
        LET e == events[Len(events)]
        IN  (\/ e.op = "rmwork" /\ e.ok
             \/ e.op \in {"sanitize", "dpkg"} /\ ~e.ok)
                => ~workingDir.exists

\* C4: when the copy into the staging path finds the path already there, the
\* tree that sanitizing then leaves for the packaging tool is exactly the
\* sanitized source of the current package.
C4_StagingOverwritten ==
    [][(pc = "rsync" /\ workingDir.exists /\ pc' = "sanitize")
          => Sanitize(workingDir'.files) = Sanitize(SourceFiles(cur))]_vars

\* C5: a package whose control file is missing when its build starts ends
\* Skipped without ending the run: the loop has moved past its element, and a
\* run that reaches the refresh has run the per-package build of every
\* element of the list.
C5_MissingControlSkips ==
    /\ \A i \in DOMAIN events :
          events[i].op = "nocontrol" =>
              /\ Len(result) >= events[i].at
              /\ result[events[i].at] = "Skipped"
              /\ idx > events[i].at
              /\ i = Len(events) => pc # "aborted"
    /\ pc \in {"refresh", "gzip", "done"} =>
          /\ Len(result) = Len(packageList)
          /\ \A k \in 1..Len(packageList) : \E i \in BuildStarts : events[i].at = k

\* C5 happens: in the first run of a process a package was skipped for its
\* missing control file and a later one of the list was built.
C5_Witness ==
    /\ FreshProcess
    /\ pc = "done"
    /\ \E i \in DOMAIN events : events[i].op = "nocontrol"
    /\ \E j, k \in DOMAIN result : j < k /\ result[j] = "Skipped" /\ result[k] = "Built"

\* What the selection of the run appended to packageList.
Added == SubSeq(packageList, base + 1, Len(packageList))
\* The calls of needToRebuildPackage the run has made.
StaleEvents == {i \in DOMAIN events : events[i].op = "stale"}
\* The run is past its selection and past the loop of buildPackages.
Selected == pc # "start"
LoopDone == pc \in {"refresh", "gzip", "done"}

\* C6: a run that names the package X (package flag set, all flag unset) makes
\* no staleness query and runs the per-package build for X and for no other
\* package, once, whether or not X is stale.
C6_ExplicitBuildsNamed ==
    ExplicitMode =>
        /\ StaleEvents = {}
        /\ \A i \in BuildStarts : events[i].pkg = arguments.package
        /\ Cardinality(BuildStarts) <= 1
        /\ LoopDone => Cardinality(BuildStarts) = 1

\* The staging and packaging commands of buildPackage.
ToolOps == {"rsync", "sanitize", "dpkg"}

\* C7: a failed staging or packaging command is the last thing the run does:
\* no later version bump, staging, packaging or index refresh follows it, and
\* the run has ended.
C7_ToolFailureIsFatal ==
    \A i \in DOMAIN events :
        (events[i].op \in ToolOps /\ ~events[i].ok) =>
            /\ pc = "aborted"
            /\ \A j \in DOMAIN events :
                  j > i => events[j].op \notin
                              {"bump", "nocontrol", "noversion", "rsync", "sanitize",
                               "rmdeb", "dpkg", "rmwork", "scan", "write", "gzip"}

\* C7 happens: the packaging tool failed for a package that is not the last
\* of the list.
C7_Witness ==
    /\ pc = "aborted"
    /\ events # <<>>
    /\ events[Len(events)].op = "dpkg"
    /\ idx < Len(packageList)
    /\ ControlExists(StripDeb(packageList[idx + 1]))

\* C8: a package without build target is stale; one with a build target is
\* stale iff a regular file of its source directory is strictly newer than
\* the target.
C8_IsStale ==
    \A n \in Names :
        /\ ~debs[n].exists => NeedToRebuildPackage(n)
        /\ debs[n].exists =>
              (NeedToRebuildPackage(n) <=>
                  \E e \in Tree(n) : e.type = "f" /\ e.mtime > debs[n].mtime)

\* C8 happens: the selection of a default run queried a package that is not
\* stale though its directory is newer than its target and a file as old as
\* the target, and one that is stale with its target present.
C8_Witness ==
    /\ DefaultMode /\ pc = "loop"
    /\ \E i, j \in StaleEvents :
          LET n == events[i].pkg
              m == events[j].pkg
          IN  /\ debs[n].exists /\ ~NeedToRebuildPackage(n)
              /\ \E e \in Tree(n) : e.type = "d" /\ e.mtime > debs[n].mtime
              /\ \E e \in Tree(n) : e.type = "f" /\ e.mtime = debs[n].mtime
              /\ debs[m].exists /\ NeedToRebuildPackage(m)

\* The k-th per-package build of a run is the build of the k-th package the
\* selection of the run appended.
BuiltInListOrder ==
    \A i \in BuildStarts :
        LET k == Cardinality({j \in BuildStarts : j <= i})
        IN  /\ k <= Len(Added)
            /\ events[i].pkg = Added[k]

\* C9: in the default mode the selection appends exactly the entries of the
\* source root that are stale, are directories and have a control file, in
\* sorted order and each once, and the run builds these packages in that
\* order.
C9_DefaultCandidates ==
    DefaultMode =>
        /\ (pc = "loop" /\ idx = 1) =>
              /\ Range(Added) =
                    {n \in ListDir :
                        NeedToRebuildPackage(n) /\ IsDir(n) /\ ControlExists(n)}
              /\ \A i, j \in DOMAIN Added : i < j => StrLess(Added[i], Added[j])
        /\ Selected => BuiltInListOrder

\* C10: with the all flag, whatever the package flag, the selection appends
\* every entry of the source root that is a directory with a control file,
\* stale or not, and nothing for the named package; the run makes no
\* staleness query.
C10_AllCandidates ==
    arguments.all =>
        /\ StaleEvents = {}
        /\ (pc = "loop" /\ idx = 1) =>
              /\ Range(Added) = {n \in ListDir : IsDir(n) /\ ControlExists(n)}
              /\ \A i, j \in DOMAIN Added : i < j => StrLess(Added[i], Added[j])

\* C10 happens: both flags are set, the named package is no entry of the
\* source root, and a package that is not stale is selected.
C10_Witness ==
    /\ arguments.all /\ arguments.package = B
    /\ pc = "loop" /\ idx = 1
    /\ src[B].kind = "none"
    /\ \E k \in DOMAIN Added : debs[Added[k]].exists /\ ~NeedToRebuildPackage(Added[k])

\* The version a control file declares: the number of its Version field
\* (<<>> when it has none).
Declared(lines) ==
    IF \E i \in DOMAIN lines : lines[i].tag = "Version"
    THEN lines[CHOOSE i \in DOMAIN lines :
                  lines[i].tag = "Version"
                  /\ \A j \in 1..(i - 1) : lines[j].tag # "Version"].ver
    ELSE <<>>

\* The step of incrementPackageVersion that wrote the bumped control file.
BumpStep == pc = "version" /\ pc' = "rsync"

\* C11: a bump of a control file that declares a.b.p reads a.b.p as the old
\* version and leaves a.b.(p+1) declared: major and minor stay, the patch
\* number goes up by one, so that n bumps raise it by n.
C11_BumpAddsOne ==
    [][(BumpStep /\ Len(Declared(src[cur].ctl.lines)) = 3) =>
          LET lines == src[cur].ctl.lines
              old == Declared(lines)
              new == Declared(src'[cur].ctl.lines)
          IN  /\ lines[SearchVersion(lines)].ver = old
              /\ new = <<old[1], old[2], old[3] + 1>>]_vars

\* C12: a bump rewrites the Version line of the control file alone: every
\* other line, also one that holds the text 'Version: ' and a number, is the
\* same after it.
C12_BumpKeepsOtherLines ==
    [][BumpStep =>
          LET old == src[cur].ctl.lines
              new == src'[cur].ctl.lines
          IN  /\ Len(new) = Len(old)
              /\ \A i \in DOMAIN old : old[i].tag # "Version" => new[i] = old[i]]_vars

\* The events of a per-package build, and those of the index refresh with
\* the scan.
BuildEvents == {i \in DOMAIN events : events[i].at > 0}
IndexEvents == {i \in DOMAIN events : events[i].op \in {"scan", "write", "gzip"}}

\* C13: a run that built a package and returned has written the index file
\* once and then compressed it once, and every call of the refresh came
\* after the per-package build of every element of the list had ended.
C13_RefreshOnceAfterBuilds ==
    /\ (pc = "done" /\ BuiltSome) =>
          \E w, g \in IndexEvents :
              /\ w < g
              /\ events[w].op = "write" /\ events[g].op = "gzip" /\ events[g].ok
              /\ \A i \in IndexEvents : events[i].op = "write" => i = w
              /\ \A i \in IndexEvents : events[i].op = "gzip" => i = g
    /\ \A i \in IndexEvents :
          /\ Len(result) = Len(packageList)
          /\ \A j \in BuildEvents : j < i

\* C13 happens: the first run of a process built two packages and returned.
C13_Witness ==
    /\ FreshProcess
    /\ pc = "done"
    /\ \E j, k \in DOMAIN result : j < k /\ result[j] = "Built" /\ result[k] = "Built"
    /\ index.gz.exists

\* C14: the version step of a package whose control file is missing, or
\* holds no version the pattern matches, leaves the control file, the built
\* artifact and the staging path as they were; this covers every package
\* that ends Skipped.
C14_SkipMutatesNothing ==
    [][(pc = "version"
        /\ (\/ ~ControlExists(cur)
            \/ SearchVersion(src[cur].ctl.lines) = 0
            \/ result' = Append(result, "Skipped")))
          => UNCHANGED <<src, debs, workingDir>>]_vars

\* C14 happens: a package with a built artifact was skipped for its missing
\* control file while a staging path was there.
C14_Witness ==
    /\ events # <<>>
    /\ events[Len(events)].op = "nocontrol"
    /\ result # <<>> /\ result[Len(result)] = "Skipped"
    /\ debs[cur].exists
    /\ workingDir.exists

\* The operations of the events of the per-package build at position k of
\* the list, in the order they were made.
OpsAt(k) ==
    LET q == SelectSeq(events, LAMBDA e : e.at = k)
    IN  [i \in DOMAIN q |-> q[i].op]
\* The steps of a build that ends Built.
BuildOrder == <<"bump", "rsync", "sanitize", "rmdeb", "dpkg", "rmwork">>
\* The positions of buildPackage after the version step.
AfterBump == {"rsync", "sanitize", "rmdeb", "dpkg", "rmwork"}

\* C15: the steps of a build that ends Built are, in this order, the write of
\* the bumped control file, the copy to the staging path, the removal of the
\* excluded names, the deletion of the old artifact, the packaging tool and
\* the removal of the staging path, and every build is a beginning of that
\* order; the bump is on disk when staging starts (the staged control file is
\* the bumped one) and no later step of the build, failed or not, touches it.
C15_StepOrder ==
    /\ [](\A k \in 1..Len(packageList) :
            /\ (k <= Len(result) /\ result[k] = "Built") => OpsAt(k) = BuildOrder
            /\ \/ OpsAt(k) \in {<<"nocontrol">>, <<"noversion">>}
               \/ /\ Len(OpsAt(k)) <= Len(BuildOrder)
                  /\ OpsAt(k) = SubSeq(BuildOrder, 1, Len(OpsAt(k))))
    /\ [][/\ BumpStep =>
                /\ src'[cur].ctl.lines # src[cur].ctl.lines
                /\ Declared(src'[cur].ctl.lines)
                      = NextVersion(src[cur].ctl.lines[SearchVersion(src[cur].ctl.lines)].ver)
          /\ (pc = "rsync" /\ pc' = "sanitize") =>
                \E f \in workingDir'.files :
                    /\ f.base = "DEBIAN/control" /\ f.of = cur
                    /\ f.lines = src[cur].ctl.lines
          /\ pc \in AfterBump => src' = src]_vars

\* C15 happens: a package was built, and the build of another one failed in
\* the packaging tool with its bumped control file on disk.
C15_Witness ==
    /\ pc = "aborted"
    /\ \E k \in DOMAIN result : result[k] = "Built"
    /\ OpsAt(idx) = SubSeq(BuildOrder, 1, 5)
    /\ Declared(src[cur].ctl.lines) = <<1, 2, 10>>

\* The packages this run has staged and not yet cleaned up.
StagedNow ==
    {events[i].pkg : i \in {i \in DOMAIN events :
        /\ events[i].op = "rsync" /\ events[i].ok
        /\ \A j \in DOMAIN events :
              j > i => ~(events[j].op = "rmwork" /\ events[j].ok)}}

\* C16: when a per-package build starts after the run has staged an earlier
\* package, the staging directory is gone; at no time has the run the
\* staged content of two packages.
C16_OneStagingAtATime ==
    /\ (pc = "version" /\ \E i \in DOMAIN events : events[i].op = "rsync" /\ events[i].ok)
          => (~workingDir.exists /\ StagedNow = {})
    /\ Cardinality(StagedNow) <= 1
    /\ StagedNow # {} => (StagedNow = {cur} /\ pc \in AfterBump \cup {"aborted"})

\* C16 happens: the second build of a run starts after the first one ended
\* Built.
C16_Witness ==
    /\ pc = "version"
    /\ idx = 2
    /\ result = <<"Built">>
    /\ ControlExists(cur)

\* C17: a run that is not the first of its process builds only what its own
\* selection appended, and when its selection appended nothing it does not
\* refresh the index.
C17_RunsAreIndependent ==
    ~FreshProcess =>
        /\ \A i \in BuildEvents : events[i].at > base
        /\ (pc = "done" /\ Added = <<>>) => IndexEvents = {}

\* C18: when a default-mode run has returned, the selection of a default-mode
\* run that follows it with no source file changed is empty (so that it
\* bumps nothing and, in a new process, does not refresh the index).
C18_SecondRunSelectsNothing ==
    (pc = "done" /\ DefaultMode) => AddAllPackagesToList(FALSE) = <<>>

\* The run ended in a failure of the packaging tool.
DpkgFailed ==
    /\ pc = "aborted"
    /\ events # <<>>
    /\ events[Len(events)].op = "dpkg"
    /\ ~events[Len(events)].ok

\* C19: when the packaging tool has failed for a package whose version the
\* run bumped, the package has no .deb file, is stale, and is in the
\* selection of a default-mode run that starts from this file system.
C19_FailedBuildStaysStale ==
    DpkgFailed =>
        /\ \E i \in DOMAIN events : events[i].op = "bump" /\ events[i].pkg = cur
        /\ ~debs[cur].exists
        /\ NeedToRebuildPackage(cur)
        /\ cur \in Range(AddAllPackagesToList(FALSE))

\* C19 happens: the packaging tool failed in a default-mode run for the last
\* package of the list, after an earlier build of the run ended.
C19_Witness ==
    /\ DpkgFailed
    /\ DefaultMode
    /\ idx = Len(packageList)
    /\ result # <<>>

\* The events of the run that bumped the version of n, and those that wrote
\* its .deb file.
BumpsOf(n) == {i \in DOMAIN events : events[i].op = "bump" /\ events[i].pkg = n}
DebsOf(n) == {i \in DOMAIN events : events[i].op = "dpkg" /\ events[i].ok /\ events[i].pkg = n}

\* C20: in the first run of a process every package is bumped at most once
\* and its .deb file written at most once, and the package bumped or written
\* is the element of the list the loop is at.
C20_OncePerSelectedName ==
    FreshProcess =>
        /\ \A n \in Names : Cardinality(BumpsOf(n)) <= 1 /\ Cardinality(DebsOf(n)) <= 1
        /\ \A i \in DOMAIN events :
              events[i].op \in {"bump", "dpkg"} => events[i].pkg = packageList[events[i].at]

====
